---- MODULE Spec2Model ----
(***************************************************************************)
(* A model of the langpatrol dataset generators.                           *)
(*                                                                         *)
(*   generate_dataset.py                    the flat-layout generator:     *)
(*       <dataset_dir>/index.json and <dataset_dir>/<id>.json              *)
(*   generate_missing_reference_dataset.py  the hierarchical generator:    *)
(*       <outdir>/<sector>/test_NNNN/{prompt.txt, ...}                     *)
(*                                                                         *)
(* Spec      the flat generator: batch runs (main), direct calls of        *)
(*           save_test_case, interrupts and failing writes, on one         *)
(*           dataset directory.                                            *)
(* SpecBatch the flat generator with batch runs, interrupts and failing    *)
(*           writes only.                                                  *)
(* SpecText  detect_references_in_prompt followed by annotate_prompt, on    *)
(*           texts put together from a few phrases.                        *)
(* SpecCase  generate_test_case_with_llm on service responses and          *)
(*           extension replies drawn from small sets.                      *)
(* SpecHier  the hierarchical generator: runs of generate_dataset on one   *)
(*           output directory, and kills of the process.                   *)
(* SpecPlan  the three loops of generate_dataset, for every total up to    *)
(*           MaxTotal, counting the slots they come to.                    *)
(* SpecLoad  one call of load_existing_dataset on a dataset directory      *)
(*           whose index and case files are in any state.                  *)
(***************************************************************************)
EXTENDS Integers, Sequences, FiniteSets, TLC

VARIABLES
    \* ---- the dataset directory of the flat generator (on disk)
    files,           \* <id>.json: id -> [st, tc]
    index,           \* index.json: [st, testCases, metadata]
    \* ---- the running process (generate_dataset.py)
    pc,              \* the statement the process is at; "idle": no process
    caller,          \* who called save_test_case: "main" or "direct"
    existing_cases,  \* main: list returned by load_existing_dataset
    existing_ids,    \* main: set of known ids
    start_id,        \* main
    i,               \* main: loop variable
    new_test_cases,  \* main: cases saved by this run
    test_case,       \* the case in hand (main's, or save_test_case's argument)
    index_data,      \* save_test_case: the index held in memory
    \* ---- the environment
    args_count,      \* --count, the same for every run
    runs,            \* batch runs started so far
    calls,           \* direct save_test_case calls started so far
    \* ---- history (what the claims are stated over)
    written,         \* id -> the case the first batch run saved under it (or NoCase)
    listed,          \* ids seen listed in index.json when a save or a run ended
    stoppedAt,       \* where the last process was cut short: the pc of the interrupt,
                     \* or "sys.exit"; "none" while it runs and when it ran to its end
    lastSave,        \* the argument and outcome of the save completed last, if
                     \* nothing has touched the directory since
    failures,        \* what has failed in the process that runs or ran last:
                     \* "generation" (a request raised), "write" (a write raised)
    \* ---- detection and annotation of one text
    t_pc,            \* "off", "text", "detected", "annotated"
    t_prompt,        \* the text
    t_refs,          \* detect_references_in_prompt(t_prompt)
    t_annotated,     \* annotate_prompt(t_prompt, t_refs)
    \* ---- one call of generate_test_case_with_llm
    c_pc,            \* "off", "call", "done"
    c_sector,        \* argument sector
    c_pattern_type,  \* argument pattern_type
    c_response,      \* what the service answers to the test case request
    c_replies,       \* what the service answers to the extension requests
    c_result,        \* what the call returned
    \* ---- the output directory of the hierarchical generator (on disk)
    outdir,          \* <<sector dir, test dir>> -> (file name -> [st, content])
    \* ---- the running process (generate_missing_reference_dataset.py)
    hpc,             \* the statement the process is at; "idle": no process
    test_cases,      \* generate_dataset: the cases generated by this run
    sector_test_numbers,  \* generate_dataset: sector -> next test number
    sector_idx,      \* generate_dataset: loop variables
    pattern_idx,
    case_num,
    h_test_case,     \* generate_dataset: the case in hand
    test_number,     \* generate_dataset: the number it is written under
    \* ---- the environment
    total_cases,     \* --cases, the same for every run
    hruns,           \* runs started so far
    good,            \* test cases the service has delivered so far
    \* ---- history (what the claims are stated over)
    at_start,        \* the output directory as the running process found it
    ended,           \* how the last process ended: "returned", "interrupted"
    exit_status,     \* the exit status of the last process
    check_found,     \* what the --check-ollama check of the last process to start
                     \* found wrong: "nothing" when it passed or was not made
    outcomes,        \* what the attempts of the slot in hand returned, in order
    numbers,         \* sector -> the test numbers this run has written, in order
    successes,       \* sector -> the attempts of this run that returned a case
    \* ---- the loops of generate_dataset on their own, for any --cases
    plan_pc,         \* the loop head the process is at; "off": not running
    plan_total,      \* total_cases
    plan_sector_idx, \* the loop variables
    plan_pattern_idx,
    plan_case_num,
    planned,         \* <<sector_idx, pattern_idx>> -> slots the loops came to
    \* ---- one call of load_existing_dataset on a dataset directory
    load_pc,         \* "call", "done"; "off": no call
    load_index,      \* index.json of the directory
    load_files,      \* its case files
    load_result      \* what the call returned, or that it raised

flatVars == <<files, index, pc, caller, existing_cases, existing_ids, start_id, i,
              new_test_cases, test_case, index_data, args_count, runs, calls,
              written, listed, stoppedAt, lastSave, failures>>

textVars == <<t_pc, t_prompt, t_refs, t_annotated>>

caseVars == <<c_pc, c_sector, c_pattern_type, c_response, c_replies, c_result>>

hierVars == <<outdir, hpc, test_cases, sector_test_numbers, sector_idx, pattern_idx,
              case_num, h_test_case, test_number, total_cases, hruns, good, at_start,
              ended, exit_status, check_found, outcomes, numbers, successes>>

planVars == <<plan_pc, plan_total, plan_sector_idx, plan_pattern_idx, plan_case_num,
              planned>>

\* The variables of the sub-models that come after the first four.
loadVars == <<load_pc, load_index, load_files, load_result>>

laterVars == <<planVars, loadVars>>

vars == <<flatVars, textVars, caseVars, hierVars, laterVars>>

----------------------------------------------------------------------------
(* Bounds of the model. *)

MaxCount == 2       \* largest --count; direct calls use case numbers 1..MaxCount
MaxOps == 2         \* processes started on the directory: batch runs and direct calls
MaxPhrases == 3     \* phrases in a text given to the detector
ShortPromptLength == 500   \* length of the short prompt the service may answer with
FewCases == 1       \* --cases of the hierarchical generator: one sector gets a case,
ManyCases == 9      \*   or every sector does and the first gets more than one
MaxGood == 2        \* test cases the service delivers before it stops answering

MaxTotal == 41      \* largest --cases the loops are run on by themselves
----------------------------------------------------------------------------
(* Values. *)

\* What the generation service returns for a case: the prompt (an opaque text)
\* and the message history, None when generate_message_history raised.
Contents == {[prompt |-> "prompt A", messages |-> "messages A"],
             [prompt |-> "prompt B", messages |-> "None"]}

NoCase == [id |-> "", prompt |-> "", messages |-> "None"]

\* f"ollama-gen-{case_id:04d}": zero-padded to at least four digits.
FormatId(case_id) ==
    LET digits == ToString(case_id)
        pad == IF Len(digits) >= 4 THEN ""
               ELSE IF Len(digits) = 3 THEN "0"
               ELSE IF Len(digits) = 2 THEN "00"
               ELSE "000"
    IN  "ollama-gen-" \o pad \o digits

\* The case numbers any run or call of the model can issue.
MaxCaseNumber == MaxOps * MaxCount + MaxCount

CaseNumbers == 1..MaxCaseNumber

CaseIds == {FormatId(n) : n \in CaseNumbers}

\* generate_test_case's return value.
MakeTestCase(case_id, content) ==
    [id |-> FormatId(case_id), prompt |-> content.prompt, messages |-> content.messages]

AbsentFile == [st |-> "absent", tc |-> NoCase]

\* open(path, 'w') truncates: until json.dump has finished and the file is
\* closed, the file exists and does not parse.
PartialFile == [st |-> "partial", tc |-> NoCase]

OkFile(tc) == [st |-> "ok", tc |-> tc]

EmptyIndexData == [testCases |-> <<>>, metadata |-> [totalTestCases |-> -1]]

AbsentIndex == [st |-> "absent", data |-> EmptyIndexData]

PartialIndex == [st |-> "partial", data |-> EmptyIndexData]

OkIndex(data) == [st |-> "ok", data |-> data]

Range(s) == {s[k] : k \in 1..Len(s)}

\* The ids index.json lists, as a reader of the directory sees them.
ListedIds == IF index.st = "ok" THEN Range(index.data.testCases) ELSE {}

----------------------------------------------------------------------------
(* load_existing_dataset *)

RECURSIVE LoadCases(_, _)
LoadCases(ids, fs) ==
    IF ids = <<>> THEN <<>>
    ELSE LET f == fs[Head(ids)]
             rest == LoadCases(Tail(ids), fs)
         IN  IF f.st = "ok" THEN <<f.tc>> \o rest   \* exists and parses
             ELSE rest                               \* missing, or JSONDecodeError

load_existing_dataset(idx, fs) ==
    IF idx.st = "ok" THEN LoadCases(idx.data.testCases, fs)
    ELSE <<>>                \* no index.json, or it does not parse

----------------------------------------------------------------------------
(* save_test_case *)

\* The statements of save_test_case that touch the disk, in program order.
SaveStepsIndexFirst ==
    <<"save_read_index", "save_open_index", "save_dump_index",
      "save_open_case", "save_dump_case">>

SaveSteps ==
    <<"save_open_case", "save_dump_case",
      "save_read_index", "save_open_index", "save_dump_index">>

SavePcs == Range(SaveSteps)

StepNo(p) == CHOOSE k \in 1..Len(SaveSteps) : SaveSteps[k] = p

\* Where control goes after statement p of save_test_case.
AfterStep(p) ==
    IF StepNo(p) < Len(SaveSteps) THEN SaveSteps[StepNo(p) + 1]
    ELSE IF caller = "main" THEN "saved" ELSE "returned"

\* Lines 254-263: the index as read, or a fresh one.
ReadIndex(idx) ==
    IF idx.st = "ok" THEN idx.data ELSE [testCases |-> <<>>, metadata |-> [totalTestCases |-> 0]]

\* Lines 265-274.
UpdateIndexAlways(data, id) ==
    LET ids == Append(data.testCases, id)
    IN  [testCases |-> ids, metadata |-> [totalTestCases |-> Len(ids)]]

UpdateIndex(data, id) ==
    LET ids == IF id \notin Range(data.testCases)
               THEN Append(data.testCases, id) ELSE data.testCases
    IN  [testCases |-> ids, metadata |-> [totalTestCases |-> Len(ids)]]

\* Lines 250-252.
OpenCase(fs, id) == [fs EXCEPT ![id] = PartialFile]

DumpCase(fs, tc) == [fs EXCEPT ![tc.id] = OkFile(tc)]

\* A whole call of save_test_case that runs to its end, on a directory
\* d = [files, index].
save_test_case(d, tc) ==
    [files |-> DumpCase(OpenCase(d.files, tc.id), tc),
     index |-> OkIndex(UpdateIndex(ReadIndex(d.index), tc.id))]

\* What a completed save leaves behind, for the history.
SaveRecord(tc, idx, fs) ==
    [tc |-> tc, ids |-> idx.data.testCases, file |-> fs[tc.id]]

NoSave == [tc |-> NoCase, ids |-> <<>>, file |-> AbsentFile]

----------------------------------------------------------------------------
(* Texts.  A Python str is a sequence of one-character strings; offsets are  *)
(* Python's (from 0), so the character at offset p of s is s[p + 1].        *)

LowerLetters ==
    <<"a", "b", "c", "d", "e", "f", "g", "h", "i", "j", "k", "l", "m",
      "n", "o", "p", "q", "r", "s", "t", "u", "v", "w", "x", "y", "z">>

UpperLetters ==
    <<"A", "B", "C", "D", "E", "F", "G", "H", "I", "J", "K", "L", "M",
      "N", "O", "P", "Q", "R", "S", "T", "U", "V", "W", "X", "Y", "Z">>

Digits == {"0", "1", "2", "3", "4", "5", "6", "7", "8", "9"}

LowerSet == {LowerLetters[k] : k \in 1..26}

UpperSet == {UpperLetters[k] : k \in 1..26}

ToLowerMap ==
    [c \in UpperSet |-> LowerLetters[CHOOSE k \in 1..26 : UpperLetters[k] = c]]

\* re.IGNORECASE compares characters without regard to case.
Lower(c) == IF c \in UpperSet THEN ToLowerMap[c] ELSE c

\* \w, \s and the class [a-z0-9_-] of the patterns (under re.IGNORECASE).
WordChars == LowerSet \cup UpperSet \cup Digits \cup {"_"}

SpaceChars == {" ", "\t", "\n", "\r"}

NounTailChars == LowerSet \cup UpperSet \cup Digits \cup {"_", "-"}

Min(a, b) == IF a < b THEN a ELSE b

Max(a, b) == IF a > b THEN a ELSE b

\* A slice bound as Python clamps it: negative counts from the end.
ClampIndex(n, k) == IF k < 0 THEN Max(n + k, 0) ELSE Min(k, n)

\* s[a:b]
Slice(s, a, b) == SubSeq(s, ClampIndex(Len(s), a) + 1, ClampIndex(Len(s), b))

\* s[:b] and s[a:]
SliceTo(s, b) == Slice(s, 0, b)

SliceFrom(s, a) == Slice(s, a, Len(s))

\* s.startswith(t) at offset p: t occurs in s at offset p.
OccursAt(s, t, p) ==
    /\ p >= 0
    /\ p + Len(t) <= Len(s)
    /\ \A k \in 1..Len(t) : s[p + k] = t[k]

\* s.find(t): the lowest offset at which t occurs in s, or -1.
Find(s, t) ==
    LET at == {p \in 0..(Len(s) - Len(t)) : OccursAt(s, t, p)}
    IN  IF at = {} THEN -1 ELSE CHOOSE p \in at : \A q \in at : p <= q

\* t in s
Contains(s, t) == Find(s, t) # -1

StartsWith(s, t) == OccursAt(s, t, 0)

EndsWith(s, t) == OccursAt(s, t, Len(s) - Len(t))

\* s.strip(): without leading and trailing whitespace.
Strip(s) ==
    LET inked == {k \in 1..Len(s) : s[k] \notin SpaceChars}
    IN  IF inked = {} THEN <<>>
        ELSE SubSeq(s, CHOOSE k \in inked : \A j \in inked : k <= j,
                       CHOOSE k \in inked : \A j \in inked : k >= j)

\* n copies of the character c.
Repeat(c, n) == [k \in 1..n |-> c]

----------------------------------------------------------------------------
(* The regular expressions of REFERENCE_PATTERNS, as Python's re matches    *)
(* them: a pattern is a sequence of elements, matched left to right with     *)
(* backtracking, alternatives tried in the order written and repetitions    *)
(* greedy.                                                                  *)

\* \b
WordBoundary == [k |-> "b", lit |-> <<>>, alts |-> <<>>]

\* \s+
Spaces == [k |-> "s+", lit |-> <<>>, alts |-> <<>>]

\* ([a-z][a-z0-9_-]{2,})
Noun == [k |-> "noun", lit |-> <<>>, alts |-> <<>>]

NoMatch == -1

\* \b matches at offset p: exactly one side of p is a word character.
AtWordBoundary(s, p) ==
    (p > 0 /\ s[p] \in WordChars) # (p < Len(s) /\ s[p + 1] \in WordChars)

\* A literal matches at offset p, without regard to case.
LiteralAt(s, t, p) ==
    /\ p + Len(t) <= Len(s)
    /\ \A k \in 1..Len(t) : Lower(s[p + k]) = t[k]

\* The length of the longest run of characters of `class` from offset p.
RECURSIVE RunLength(_, _, _)
RunLength(s, class, p) ==
    IF p < Len(s) /\ s[p + 1] \in class THEN 1 + RunLength(s, class, p + 1) ELSE 0

\* Match(re, s, p): the offset at which the match of the elements re that
\* starts at offset p ends, or NoMatch.  MatchRepeat tries a greedy
\* repetition that may take n characters down to least; MatchAlts tries the
\* alternatives of a group from the a-th on.
RECURSIVE Match(_, _, _), MatchRepeat(_, _, _, _, _), MatchAlts(_, _, _, _, _)
Match(re, s, p) ==
    IF re = <<>> THEN p
    ELSE LET e == Head(re)
             rest == Tail(re)
         IN  CASE e.k = "b" ->
                    IF AtWordBoundary(s, p) THEN Match(rest, s, p) ELSE NoMatch
               [] e.k = "lit" ->
                    IF LiteralAt(s, e.lit, p) THEN Match(rest, s, p + Len(e.lit))
                    ELSE NoMatch
               [] e.k = "s+" ->
                    MatchRepeat(rest, s, p, RunLength(s, SpaceChars, p), 1)
               [] e.k = "noun" ->
                    IF p < Len(s) /\ s[p + 1] \in LowerSet \cup UpperSet
                    THEN MatchRepeat(rest, s, p + 1, RunLength(s, NounTailChars, p + 1), 2)
                    ELSE NoMatch
               [] e.k = "group" -> MatchAlts(e.alts, 1, rest, s, p)

MatchRepeat(rest, s, p, n, least) ==
    IF n < least THEN NoMatch
    ELSE LET m == Match(rest, s, p + n)
         IN  IF m # NoMatch THEN m ELSE MatchRepeat(rest, s, p, n - 1, least)

MatchAlts(alts, a, rest, s, p) ==
    IF a > Len(alts) THEN NoMatch
    ELSE LET m == Match(alts[a] \o rest, s, p)
         IN  IF m # NoMatch THEN m ELSE MatchAlts(alts, a + 1, rest, s, p)

\* Lines 76-87.
REFERENCE_PATTERNS ==
    <<
    [type |-> "definite_noun",
     re |-> <<WordBoundary,
            [k |-> "group", lit |-> <<>>, alts |-> <<<<[k |-> "lit", lit |-> <<"t", "h", "e">>, alts |-> <<>>]>>, <<[k |-> "lit", lit |-> <<"t", "h", "i", "s">>, alts |-> <<>>]>>, <<[k |-> "lit", lit |-> <<"t", "h", "a", "t">>, alts |-> <<>>]>>, <<[k |-> "lit", lit |-> <<"t", "h", "e", "s", "e">>, alts |-> <<>>]>>, <<[k |-> "lit", lit |-> <<"t", "h", "o", "s", "e">>, alts |-> <<>>]>>>>],
            Spaces,
            Noun,
            WordBoundary>>],
    [type |-> "deictic",
     re |-> <<WordBoundary,
            [k |-> "lit", lit |-> <<"a", "s">>, alts |-> <<>>],
            Spaces,
            [k |-> "group", lit |-> <<>>, alts |-> <<<<[k |-> "lit", lit |-> <<"d", "i", "s", "c", "u", "s", "s", "e", "d">>, alts |-> <<>>]>>, <<[k |-> "lit", lit |-> <<"m", "e", "n", "t", "i", "o", "n", "e", "d">>, alts |-> <<>>]>>, <<[k |-> "lit", lit |-> <<"s", "t", "a", "t", "e", "d">>, alts |-> <<>>]>>, <<[k |-> "lit", lit |-> <<"n", "o", "t", "e", "d">>, alts |-> <<>>]>>>>],
            Spaces,
            [k |-> "group", lit |-> <<>>, alts |-> <<<<[k |-> "lit", lit |-> <<"e", "a", "r", "l", "i", "e", "r">>, alts |-> <<>>]>>, <<[k |-> "lit", lit |-> <<"a", "b", "o", "v", "e">>, alts |-> <<>>]>>, <<[k |-> "lit", lit |-> <<"p", "r", "e", "v", "i", "o", "u", "s", "l", "y">>, alts |-> <<>>]>>, <<[k |-> "lit", lit |-> <<"b", "e", "f", "o", "r", "e">>, alts |-> <<>>]>>>>],
            WordBoundary>>],
    [type |-> "deictic_noun",
     re |-> <<WordBoundary,
            [k |-> "group", lit |-> <<>>, alts |-> <<<<[k |-> "lit", lit |-> <<"t", "h", "e">>, alts |-> <<>>]>>, <<[k |-> "lit", lit |-> <<"t", "h", "i", "s">>, alts |-> <<>>]>>, <<[k |-> "lit", lit |-> <<"t", "h", "a", "t">>, alts |-> <<>>]>>>>],
            Spaces,
            [k |-> "group", lit |-> <<>>, alts |-> <<<<[k |-> "lit", lit |-> <<"p", "r", "e", "v", "i", "o", "u", "s">>, alts |-> <<>>]>>, <<[k |-> "lit", lit |-> <<"e", "a", "r", "l", "i", "e", "r">>, alts |-> <<>>]>>, <<[k |-> "lit", lit |-> <<"p", "r", "i", "o", "r">>, alts |-> <<>>]>>, <<[k |-> "lit", lit |-> <<"a", "f", "o", "r", "e", "m", "e", "n", "t", "i", "o", "n", "e", "d">>, alts |-> <<>>]>>, <<[k |-> "lit", lit |-> <<"a", "b", "o", "v", "e">>, alts |-> <<>>]>>, <<[k |-> "lit", lit |-> <<"b", "e", "l", "o", "w">>, alts |-> <<>>]>>>>],
            Spaces,
            Noun,
            WordBoundary>>],
    [type |-> "continue_reference",
     re |-> <<WordBoundary,
            [k |-> "lit", lit |-> <<"c", "o", "n", "t", "i", "n", "u", "e">>, alts |-> <<>>],
            Spaces,
            [k |-> "lit", lit |-> <<"t", "h", "e">>, alts |-> <<>>],
            Spaces,
            Noun,
            WordBoundary>>],
    [type |-> "positional_reference",
     re |-> <<WordBoundary,
            [k |-> "lit", lit |-> <<"t", "h", "e">>, alts |-> <<>>],
            Spaces,
            Noun,
            Spaces,
            [k |-> "group", lit |-> <<>>, alts |-> <<<<[k |-> "lit", lit |-> <<"a", "b", "o", "v", "e">>, alts |-> <<>>]>>, <<[k |-> "lit", lit |-> <<"b", "e", "l", "o", "w">>, alts |-> <<>>]>>, <<[k |-> "lit", lit |-> <<"m", "e", "n", "t", "i", "o", "n", "e", "d">>, alts |-> <<>>]>>, <<[k |-> "lit", lit |-> <<"d", "i", "s", "c", "u", "s", "s", "e", "d">>, alts |-> <<>>]>>, <<[k |-> "lit", lit |-> <<"w", "e">>, alts |-> <<>>], Spaces, [k |-> "lit", lit |-> <<"d", "i", "s", "c", "u", "s", "s", "e", "d">>, alts |-> <<>>]>>>>],
            WordBoundary>>],
    [type |-> "forward_reference",
     re |-> <<WordBoundary,
            [k |-> "lit", lit |-> <<"t", "h", "e">>, alts |-> <<>>],
            Spaces,
            [k |-> "lit", lit |-> <<"f", "o", "l", "l", "o", "w", "i", "n", "g">>, alts |-> <<>>],
            Spaces,
            Noun,
            WordBoundary>>],
    [type |-> "forward_reference",
     re |-> <<WordBoundary,
            [k |-> "lit", lit |-> <<"a", "s">>, alts |-> <<>>],
            Spaces,
            [k |-> "lit", lit |-> <<"s", "h", "o", "w", "n">>, alts |-> <<>>],
            Spaces,
            [k |-> "lit", lit |-> <<"b", "e", "l", "o", "w">>, alts |-> <<>>],
            WordBoundary>>],
    [type |-> "forward_reference",
     re |-> <<WordBoundary,
            [k |-> "lit", lit |-> <<"t", "h", "e">>, alts |-> <<>>],
            Spaces,
            Noun,
            Spaces,
            [k |-> "lit", lit |-> <<"b", "e", "l", "o", "w">>, alts |-> <<>>],
            WordBoundary>>],
    [type |-> "plural_reference",
     re |-> <<WordBoundary,
            [k |-> "lit", lit |-> <<"t", "h", "e", "s", "e">>, alts |-> <<>>],
            Spaces,
            Noun,
            WordBoundary>>],
    [type |-> "plural_reference",
     re |-> <<WordBoundary,
            [k |-> "lit", lit |-> <<"t", "h", "o", "s", "e">>, alts |-> <<>>],
            Spaces,
            Noun,
            WordBoundary>>]
    >>

\* re.finditer(pattern, prompt, re.IGNORECASE): the matches from left to
\* right, each search starting where the match before it ended.  starts are
\* the offsets, in ascending order, at which the pattern matches at all.
RECURSIVE FindIter(_, _, _, _)
FindIter(re, s, starts, from) ==
    IF starts = <<>> THEN <<>>
    ELSE LET p == Head(starts)
         IN  IF p < from THEN FindIter(re, s, Tail(starts), from)
             ELSE LET m == Match(re, s, p)
                  IN  <<[start |-> p, end |-> m]>> \o FindIter(re, s, Tail(starts), m)

\* The elements of a set of numbers in ascending order.
RECURSIVE Ascending(_)
Ascending(S) ==
    IF S = {} THEN <<>>
    ELSE LET lo == CHOOSE x \in S : \A y \in S : x <= y
         IN  <<lo>> \o Ascending(S \ {lo})

Matches(re, s) ==
    FindIter(re, s, Ascending({p \in 0..(Len(s) - 1) : Match(re, s, p) # NoMatch}), 0)

\* A reference dict: {'text', 'start', 'end', 'type'}.
Ref(text, start, end, type) ==
    [text |-> text, start |-> start, end |-> end, type |-> type]

\* Lines 113-120: the matches of every pattern, in pattern order.
RECURSIVE AllReferences(_, _)
AllReferences(s, n) ==
    IF n > Len(REFERENCE_PATTERNS) THEN <<>>
    ELSE LET ms == Matches(REFERENCE_PATTERNS[n].re, s)
         IN  [k \in 1..Len(ms) |->
                 Ref(Slice(s, ms[k].start, ms[k].end), ms[k].start, ms[k].end,
                     REFERENCE_PATTERNS[n].type)]
             \o AllReferences(s, n + 1)

\* sorted(refs, key=...): a stable sort on the keys, ascending when asc and
\* descending (sorted(..., reverse=True), which also keeps equal keys in their
\* order) otherwise.  An entry is a reference with its key; Insert puts e
\* behind the entries it does not precede.
RECURSIVE InsertByKey(_, _, _)
InsertByKey(sorted, e, asc) ==
    IF sorted = <<>> THEN <<e>>
    ELSE IF (asc /\ e.key < Head(sorted).key) \/ (~asc /\ e.key > Head(sorted).key)
         THEN <<e>> \o sorted
         ELSE <<Head(sorted)>> \o InsertByKey(Tail(sorted), e, asc)

RECURSIVE SortedEntries(_, _)
SortedEntries(entries, asc) ==
    IF entries = <<>> THEN <<>>
    ELSE InsertByKey(SortedEntries(SubSeq(entries, 1, Len(entries) - 1), asc),
                     entries[Len(entries)], asc)

\* keys[k] is the key of refs[k].
SortedBy(refs, keys, asc) ==
    LET entries == [k \in 1..Len(refs) |-> [key |-> keys[k], ref |-> refs[k]]]
        sorted == SortedEntries(entries, asc)
    IN  [k \in 1..Len(sorted) |-> sorted[k].ref]

\* Line 125, key=lambda x: x['start'].
StartOf(refs) == [k \in 1..Len(refs) |-> refs[k].start]

\* A detector that keeps the last reference of every (start, end).
RECURSIVE UniqueLast(_, _)
UniqueLast(refs, seen) ==
    IF refs = <<>> THEN <<>>
    ELSE LET r == refs[Len(refs)]
             key == <<r.start, r.end>>
             front == SubSeq(refs, 1, Len(refs) - 1)
         IN  IF key \notin seen THEN UniqueLast(front, seen \cup {key}) \o <<r>>
             ELSE UniqueLast(front, seen)

\* Lines 122-129: keep the first reference of every (start, end).
RECURSIVE Unique(_, _)
Unique(refs, seen) ==
    IF refs = <<>> THEN <<>>
    ELSE LET r == Head(refs)
             key == <<r.start, r.end>>
         IN  IF key \notin seen THEN <<r>> \o Unique(Tail(refs), seen \cup {key})
             ELSE Unique(Tail(refs), seen)

\* Lines 109-131.
detect_references_in_prompt(prompt) ==
    LET references == AllReferences(prompt, 1)
    IN  Unique(SortedBy(references, StartOf(references), TRUE), {})

----------------------------------------------------------------------------
(* annotate_prompt (lines 89-107). *)

\* d.get(key, default) of a dict, modelled as a record.
Get(d, key, default) == IF key \in DOMAIN d THEN d[key] ELSE default

MARKER == <<"[", "M", "I", "S", "S", "I", "N", "G", "_", "R", "E", "F", "E", "R", "E", "N", "C", "E", "]">>

\* Line 95, key=lambda x: x.get('start', 0).
StartKey(refs) == [k \in 1..Len(refs) |-> Get(refs[k], "start", 0)]

\* Line 104: where the marker of a reference that ends at `end` is put, given
\* the offset accumulated so far.
InsertAt(end, offset) == end + offset

\* Lines 97-105: the references are taken in the order given; acc is
\* [annotated, offset].
RECURSIVE AnnotateLoop(_, _, _)
AnnotateLoop(prompt, refs, acc) ==
    IF refs = <<>> THEN acc.annotated
    ELSE LET ref == Head(refs)
             start == Get(ref, "start", 0)
             end == Get(ref, "end", start + Len(Get(ref, "text", <<>>)))
             at == InsertAt(end, acc.offset)
         IN  IF start >= 0 /\ end <= Len(prompt)
             THEN AnnotateLoop(prompt, Tail(refs),
                      [annotated |-> SliceTo(acc.annotated, at) \o MARKER
                                        \o SliceFrom(acc.annotated, at),
                       offset |-> acc.offset + Len(MARKER)])
             ELSE AnnotateLoop(prompt, Tail(refs), acc)

annotate_prompt(prompt, missing_references) ==
    AnnotateLoop(prompt, SortedBy(missing_references, StartKey(missing_references), FALSE),
                 [annotated |-> prompt, offset |-> 0])

----------------------------------------------------------------------------
(* The configuration of generate_missing_reference_dataset.py (lines 24-45). *)

MIN_PROMPT_LENGTH == 2000

SECTORS ==
    <<
      <<"C", "u", "s", "t", "o", "m", "e", "r", " ", "S", "u", "p", "p", "o", "r", "t">>,
      <<"P", "h", "a", "r", "m", "a", "/", "T", "e", "c", "h">>,
      <<"B", "o", "o", "k", "i", "n", "g", " ", "A", "g", "e", "n", "t">>,
      <<"E", "-", "c", "o", "m", "m", "e", "r", "c", "e">>,
      <<"H", "e", "a", "l", "t", "h", "c", "a", "r", "e">>,
      <<"L", "e", "g", "a", "l">>,
      <<"E", "d", "u", "c", "a", "t", "i", "o", "n">>,
      <<"F", "i", "n", "a", "n", "c", "e">>
    >>

PATTERN_TYPES ==
    <<"missing_definite", "missing_deictic", "missing_forward", "resolved", "mixed">>

\* sector.lower()
LowerCase(s) == [k \in 1..Len(s) |-> Lower(s[k])]

\* sector.replace('/', '_')
ReplaceSlash(s) == [k \in 1..Len(s) |-> IF s[k] = "/" THEN "_" ELSE s[k]]

----------------------------------------------------------------------------
(* extend_prompt_if_needed (lines 187-233). *)

\* Lines 229-231: the generic extension, around the two {sector.lower()}.
ExtensionHead ==
    <<"\n", "\n", "A", "d", "d", "i", "t", "i", "o", "n", "a", "l", " ", "c", "o", "n", "t",
    "e", "x", "t", ":", " ", "T", "h", "i", "s", " ", "r", "e", "q", "u", "e", "s", "t", " ",
    "i", "s", " ", "p", "a", "r", "t", " ", "o", "f", " ", "a", " ">>

ExtensionMiddle ==
    <<" ", "w", "o", "r", "k", "f", "l", "o", "w", " ", "t", "h", "a", "t", " ", "r", "e", "q",
    "u", "i", "r", "e", "s", " ", "c", "o", "m", "p", "r", "e", "h", "e", "n", "s", "i", "v",
    "e", " ", "a", "n", "a", "l", "y", "s", "i", "s", " ", "a", "n", "d", " ", "d", "e", "t",
    "a", "i", "l", "e", "d", " ", "p", "r", "o", "c", "e", "s", "s", "i", "n", "g", ".", " ",
    "P", "l", "e", "a", "s", "e", " ", "e", "n", "s", "u", "r", "e", " ", "a", "l", "l", " ",
    "r", "e", "l", "e", "v", "a", "n", "t", " ", "i", "n", "f", "o", "r", "m", "a", "t", "i",
    "o", "n", " ", "i", "s", " ", "c", "o", "n", "s", "i", "d", "e", "r", "e", "d", ",", " ",
    "i", "n", "c", "l", "u", "d", "i", "n", "g", " ", "h", "i", "s", "t", "o", "r", "i", "c",
    "a", "l", " ", "d", "a", "t", "a", ",", " ", "c", "u", "r", "r", "e", "n", "t", " ", "s",
    "t", "a", "t", "e", ",", " ", "a", "n", "d", " ", "f", "u", "t", "u", "r", "e", " ", "r",
    "e", "q", "u", "i", "r", "e", "m", "e", "n", "t", "s", ".", " ", "T", "h", "e", " ", "t",
    "a", "s", "k", " ", "i", "n", "v", "o", "l", "v", "e", "s", " ", "m", "u", "l", "t", "i",
    "p", "l", "e", " ", "s", "t", "e", "p", "s", " ", "a", "n", "d", " ", "m", "a", "y", " ",
    "r", "e", "q", "u", "i", "r", "e", " ", "c", "o", "o", "r", "d", "i", "n", "a", "t", "i",
    "o", "n", " ", "w", "i", "t", "h", " ", "o", "t", "h", "e", "r", " ", "s", "y", "s", "t",
    "e", "m", "s", " ", "o", "r", " ", "s", "t", "a", "k", "e", "h", "o", "l", "d", "e", "r",
    "s", ".", " ", "P", "l", "e", "a", "s", "e", " ", "p", "r", "o", "v", "i", "d", "e", " ",
    "a", " ", "t", "h", "o", "r", "o", "u", "g", "h", " ", "r", "e", "s", "p", "o", "n", "s",
    "e", " ", "t", "h", "a", "t", " ", "a", "d", "d", "r", "e", "s", "s", "e", "s", " ", "a",
    "l", "l", " ", "a", "s", "p", "e", "c", "t", "s", " ", "o", "f", " ", "t", "h", "i", "s",
    " ", "r", "e", "q", "u", "e", "s", "t", ",", " ", "i", "n", "c", "l", "u", "d", "i", "n",
    "g", " ", "a", "n", "y", " ", "p", "o", "t", "e", "n", "t", "i", "a", "l", " ", "e", "d",
    "g", "e", " ", "c", "a", "s", "e", "s", " ", "o", "r", " ", "s", "p", "e", "c", "i", "a",
    "l", " ", "c", "o", "n", "s", "i", "d", "e", "r", "a", "t", "i", "o", "n", "s", " ", "t",
    "h", "a", "t", " ", "m", "i", "g", "h", "t", " ", "a", "p", "p", "l", "y", " ", "t", "o",
    " ", "t", "h", "i", "s", " ", "s", "p", "e", "c", "i", "f", "i", "c", " ">>

ExtensionTail ==
    <<" ", "s", "c", "e", "n", "a", "r", "i", "o", ".">>

Extension(sector) ==
    ExtensionHead \o LowerCase(sector) \o ExtensionMiddle \o LowerCase(sector)
        \o ExtensionTail

\* The character U+0060, which a TLA+ string cannot hold, by its name.
Backtick == "GRAVE ACCENT"

\* Lines 219-220: a reply in double quotes loses them.
Unquote(s) ==
    IF StartsWith(s, <<"\"">>) /\ EndsWith(s, <<"\"">>) THEN Slice(s, 1, -1) ELSE s

\* Lines 221-223: '\n'.join(extended.split('\n')[1:-1]) of a reply in code
\* fences: what lies between its first and its last line break.
Unfence(s) ==
    LET fence == <<Backtick, Backtick, Backtick>>
        breaks == {p \in 0..(Len(s) - 1) : s[p + 1] = "\n"}
        first == CHOOSE p \in breaks : \A q \in breaks : p <= q
        last == CHOOSE p \in breaks : \A q \in breaks : p >= q
    IN  IF StartsWith(s, fence) /\ EndsWith(s, fence)
        THEN IF Cardinality(breaks) >= 2 THEN Slice(s, first + 1, last) ELSE <<>>
        ELSE s

\* Lines 216-224: the reply of the service is used when it is not empty and
\* longer than the prompt.
ReplyUsable(prompt, extended) == extended # <<>> /\ Len(extended) > Len(prompt)

\* reply is what call_ollama returns for the extension request: the text of
\* the service stripped, or the empty text when the request failed (line 71).
extend_prompt_if_needed(prompt, sector, pattern_type, reply) ==
    IF Len(prompt) >= MIN_PROMPT_LENGTH THEN prompt
    ELSE IF ReplyUsable(prompt, reply) THEN Unfence(Unquote(Strip(reply)))
    ELSE prompt \o Extension(sector)

----------------------------------------------------------------------------
(* generate_test_case_with_llm (lines 235-324). *)

\* d[key] = val of a dict.
Put(d, key, val) == [k \in DOMAIN d \cup {key} |-> IF k = key THEN val ELSE d[k]]

EmptyDict == [k \in {} |-> <<>>]

\* What the function hands back: None, a test case, or an exception.
ReturnNone == [ret |-> "None", case |-> EmptyDict]

Return(case) == [ret |-> "case", case |-> case]

Raise == [ret |-> "raise", case |-> EmptyDict]

\* Lines 272-274.
DefaultCodes(pattern_type) ==
    IF pattern_type # "resolved" THEN <<"MISSING_REFERENCE">> ELSE <<>>

WithCodes(tc, pattern_type) ==
    IF "expected_issue_codes" \notin DOMAIN tc
    THEN Put(tc, "expected_issue_codes", DefaultCodes(pattern_type))
    ELSE tc

\* Lines 276-282.
WithReferences(tc, pattern_type) ==
    IF "missing_references" \notin DOMAIN tc \/ tc["missing_references"] = <<>>
    THEN Put(tc, "missing_references",
             IF pattern_type # "resolved" THEN detect_references_in_prompt(tc["prompt"])
             ELSE <<>>)
    ELSE tc

\* Lines 287-300: replies[1] answers the extension request, if one is made.
WithExtendedPrompt(tc, sector, pattern_type, replies) ==
    LET prompt_text == tc["prompt"]
        extended_prompt ==
            extend_prompt_if_needed(prompt_text, sector, pattern_type, replies[1])
    IN  IF Len(prompt_text) < MIN_PROMPT_LENGTH
        THEN Put(IF Len(extended_prompt) > Len(prompt_text) /\ pattern_type # "resolved"
                 THEN Put(tc, "missing_references",
                          detect_references_in_prompt(extended_prompt))
                 ELSE tc,
                 "prompt", extended_prompt)
        ELSE tc

\* Lines 303-310: a reference whose text occurs in the prompt is moved to the
\* first occurrence; any other reference is left as it is.
FixPosition(ref, prompt_text) ==
    LET ref_text == Get(ref, "text", <<>>)
        actual_start == Find(prompt_text, ref_text)
    IN  IF Contains(prompt_text, ref_text)
        THEN Put(Put(ref, "start", actual_start), "end", actual_start + Len(ref_text))
        ELSE ref

WithFixedPositions(tc) ==
    Put(tc, "missing_references",
        [k \in 1..Len(tc["missing_references"]) |->
            FixPosition(tc["missing_references"][k], tc["prompt"])])

\* Lines 312-313.
DefaultNotes(sector, pattern_type) == <<pattern_type, " pattern in ", sector>>

WithNotes(tc, sector, pattern_type) ==
    IF "notes" \notin DOMAIN tc
    THEN Put(tc, "notes", DefaultNotes(sector, pattern_type))
    ELSE tc

\* Lines 315-319: replies[2] answers the extension request of the final
\* fallback, if one is made.
WithFinalExtension(tc, sector, pattern_type, replies) ==
    IF Len(tc["prompt"]) < MIN_PROMPT_LENGTH
    THEN Put(tc, "prompt",
             extend_prompt_if_needed(tc["prompt"], sector, pattern_type, replies[2]))
    ELSE tc

\* response is what call_ollama returned for the test case request:
\*   text "empty"      the empty text (also when the request failed)
\*        "no_braces"  a text without '{' or without '}' (lines 256-261)
\*        "not_json"   json.loads raises JSONDecodeError (lines 322-324)
\*        "json"       a JSON object, response.obj, whose prompt is a str and
\*                     whose references, if any, are a list of dicts
\*        "bad_types"  a JSON object with messages and a prompt that is not
\*                     a str: len() or re.finditer raises TypeError
\* replies are the answers to the extension requests, in the order made.
generate_test_case_with_llm(sector, pattern_type, response, replies) ==
    IF response.text \in {"empty", "no_braces", "not_json"} THEN ReturnNone
    ELSE IF "messages" \notin DOMAIN response.obj \/ "prompt" \notin DOMAIN response.obj
         THEN ReturnNone
    ELSE IF response.text = "bad_types" THEN Raise
    ELSE Return(
           WithFinalExtension(
             WithNotes(
               WithFixedPositions(
                 WithExtendedPrompt(
                   WithReferences(WithCodes(response.obj, pattern_type), pattern_type),
                   sector, pattern_type, replies)),
               sector, pattern_type),
             sector, pattern_type, replies))

----------------------------------------------------------------------------
(* write_test_case_files (lines 328-365). *)

\* Line 332.
SectorDir(sector) == ReplaceSlash(sector)

\* Line 333, f"test_{test_number:04d}".
TestDirName(n) ==
    LET digits == ToString(n)
        pad == IF Len(digits) >= 4 THEN ""
               ELSE IF Len(digits) = 3 THEN "0"
               ELSE IF Len(digits) = 2 THEN "00"
               ELSE "000"
    IN  "test_" \o pad \o digits

TestDir(sector, n) == <<SectorDir(sector), TestDirName(n)>>

NoFiles == [name \in {} |-> <<>>]

\* open(path, 'w') creates or truncates the file; it holds its content once
\* the write has finished and it is closed.
Opened == [st |-> "partial", content |-> <<>>]

Closed(content) == [st |-> "ok", content |-> content]

\* Line 334, os.makedirs(test_dir, exist_ok=True).
MakeDirs(dir, path) ==
    IF path \in DOMAIN dir THEN dir
    ELSE [p \in DOMAIN dir \cup {path} |-> IF p = path THEN NoFiles ELSE dir[p]]

PutFile(dir, path, name, file) ==
    [dir EXCEPT ![path] = Put(dir[path], name, file)]

\* Lines 347-351.
ExpectedOutput(tc) ==
    [expected_issue_codes |-> Get(tc, "expected_issue_codes", <<>>),
     missing_references |-> Get(tc, "missing_references", <<>>),
     notes |-> Get(tc, "notes", <<>>)]

\* The files of a test case, in the order written, and what goes into each.
FileNames == <<"prompt.txt", "history.json", "expected_output.json", "prompt_annotated.txt">>

FileContent(tc, name) ==
    IF name = "prompt.txt" THEN tc["prompt"]
    ELSE IF name = "history.json" THEN tc["messages"]
    ELSE IF name = "expected_output.json" THEN ExpectedOutput(tc)
    ELSE annotate_prompt(tc["prompt"], Get(tc, "missing_references", <<>>))

\* The statements of write_test_case_files, in order.
WriteSteps ==
    <<"makedirs", "open_prompt", "write_prompt", "open_history", "dump_history",
      "open_expected", "dump_expected", "open_annotated", "write_annotated", "record">>

WritePcs == {WriteSteps[k] : k \in 1..(Len(WriteSteps) - 1)}

WriteStepNo(p) == CHOOSE k \in 1..Len(WriteSteps) : WriteSteps[k] = p

AfterWriteStep(p) == WriteSteps[WriteStepNo(p) + 1]

----------------------------------------------------------------------------
(* generate_dataset (lines 369-421). *)

\* A planner that gives the extra cases to the last sectors.
SectorCountLast(total, s_idx) ==
    (total \div Len(SECTORS))
        + (IF s_idx >= Len(SECTORS) - (total % Len(SECTORS)) THEN 1 ELSE 0)

\* Lines 373-374, 380.
SectorCount(total, s_idx) ==
    (total \div Len(SECTORS)) + (IF s_idx < total % Len(SECTORS) THEN 1 ELSE 0)

\* A planner that drops the remainder of a sector's allotment.
PatternCountFloor(total, s_idx, p_idx) ==
    SectorCount(total, s_idx) \div Len(PATTERN_TYPES)

\* Lines 381-382, 389.
PatternCount(total, s_idx, p_idx) ==
    (SectorCount(total, s_idx) \div Len(PATTERN_TYPES))
        + (IF p_idx < SectorCount(total, s_idx) % Len(PATTERN_TYPES) THEN 1 ELSE 0)

NoSlot == <<Len(SECTORS), 0, 0>>

\* Lines 379, 388, 391: the first slot the loops come to from the head of the
\* pattern loop with the loop variables at s_idx and p_idx; NoSlot when the
\* loops end.
RECURSIVE FirstSlotFrom(_, _, _)
FirstSlotFrom(total, s_idx, p_idx) ==
    IF s_idx >= Len(SECTORS) THEN NoSlot
    ELSE IF p_idx >= Len(PATTERN_TYPES) THEN FirstSlotFrom(total, s_idx + 1, 0)
    ELSE IF PatternCount(total, s_idx, p_idx) > 0 THEN <<s_idx, p_idx, 0>>
    ELSE FirstSlotFrom(total, s_idx, p_idx + 1)

\* The slot the loops come to after slot `cur`.
NextSlot(total, cur) ==
    IF cur[3] + 1 < PatternCount(total, cur[1], cur[2])
    THEN <<cur[1], cur[2], cur[3] + 1>>
    ELSE FirstSlotFrom(total, cur[1], cur[2] + 1)

\* Line 376.
FirstNumbers == [s \in Range(SECTORS) |-> 1]

\* Lines 401 and 417, sector_test_numbers[sector] += 1.
NextNumber(n) == n + 1

\* A generator that gives a slot up at its first failure.
NeverRetry(result) == FALSE

\* Lines 392 and 403: the else branch is taken, and the retry made, when
\* generate_test_case_with_llm returned None.
NeedsRetry(result) == result.ret = "None"

\* Lines 395-400 and 409-414: the case, held by its handle tc, with three more keys.
Entry(tc, sector, n) ==
    [case |-> tc, sector |-> sector, test_number |-> n, test_dir |-> TestDir(sector, n)]

----------------------------------------------------------------------------
(* The flat generator: initial state. *)

NoLocals ==
    /\ caller' = "none"
    /\ existing_cases' = <<>>
    /\ existing_ids' = {}
    /\ start_id' = 0
    /\ i' = 0
    /\ new_test_cases' = <<>>
    /\ test_case' = NoCase
    /\ index_data' = EmptyIndexData

FlatInit ==
    /\ files = [id \in CaseIds |-> AbsentFile]
    /\ index = AbsentIndex
    /\ pc = "idle"
    /\ caller = "none"
    /\ existing_cases = <<>>
    /\ existing_ids = {}
    /\ start_id = 0
    /\ i = 0
    /\ new_test_cases = <<>>
    /\ test_case = NoCase
    /\ index_data = EmptyIndexData
    /\ args_count \in 0..MaxCount
    /\ runs = 0
    /\ calls = 0
    /\ written = [id \in CaseIds |-> NoCase]
    /\ listed = {}
    /\ stoppedAt = "none"
    /\ lastSave = NoSave
    /\ failures = {}

disk == <<files, index>>
locals == <<caller, existing_cases, existing_ids, start_id, i, new_test_cases,
            test_case, index_data>>
env == <<args_count, runs, calls>>
history == <<written, listed, stoppedAt, lastSave, failures>>
others == <<textVars, caseVars, hierVars, laterVars>>

----------------------------------------------------------------------------
(* main of generate_dataset.py, statement by statement. *)

\* Line 361, for i in range(start_id, start_id + args.count): where control
\* goes when the loop variable takes the value n.
Iteration(n) == IF n < start_id + args_count THEN "generate" ELSE "summary"

\* A batch run starts (argument parsing, client construction).
StartMain ==
    /\ pc = "idle"
    /\ runs + calls < MaxOps
    /\ runs' = runs + 1
    /\ pc' = "load"
    /\ caller' = "main"
    /\ stoppedAt' = "none"
    /\ failures' = {}
    /\ UNCHANGED <<disk, existing_cases, existing_ids, start_id, i, new_test_cases,
                   test_case, index_data, args_count, calls, written, listed, lastSave>>
    /\ UNCHANGED others

\* Lines 339-341.
LoadExisting ==
    /\ pc = "load"
    /\ existing_cases' = load_existing_dataset(index, files)
    /\ existing_ids' = {existing_cases'[k].id : k \in 1..Len(existing_cases')}
    /\ pc' = "connect"
    /\ UNCHANGED <<disk, caller, start_id, i, new_test_cases, test_case, index_data,
                   env, history>>
    /\ UNCHANGED others

\* Lines 343-361: the service answers and the loop is entered, or sys.exit(1).
TestConnection ==
    /\ pc = "connect"
    /\ \/ /\ start_id' = Len(existing_cases) + 1
          /\ i' = start_id'
          /\ new_test_cases' = <<>>
          /\ pc' = IF start_id' < start_id' + args_count THEN "generate" ELSE "summary"
          /\ UNCHANGED <<caller, existing_cases, existing_ids, test_case, index_data>>
          /\ stoppedAt' = stoppedAt
       \/ /\ pc' = "idle"
          /\ NoLocals
          /\ stoppedAt' = "sys.exit"
    /\ UNCHANGED <<disk, env, written, listed, lastSave, failures>>
    /\ UNCHANGED others

\* Lines 363-376 and 384-386: generate_test_case returns a case, which is
\* skipped when its id is known; or the request for the prompt raises and the
\* loop carries on with the next i.
Generate ==
    /\ pc = "generate"
    /\ \/ \E c \in Contents :
             /\ test_case' = MakeTestCase(i, c)
             /\ IF test_case'.id \in existing_ids
                THEN /\ i' = i + 1
                     /\ pc' = Iteration(i + 1)
                ELSE /\ i' = i
                     /\ pc' = SaveSteps[1]
             /\ failures' = failures
       \/ /\ i' = i + 1
          /\ pc' = Iteration(i + 1)
          /\ test_case' = test_case
          /\ failures' = failures \cup {"generation"}
    /\ lastSave' = IF pc' \in SavePcs /\ test_case' # lastSave.tc THEN NoSave ELSE lastSave
    /\ UNCHANGED <<disk, caller, existing_cases, existing_ids, start_id, new_test_cases,
                   index_data, env, written, listed, stoppedAt>>
    /\ UNCHANGED others

\* Lines 377-378, after save_test_case has returned.
AfterSave ==
    /\ pc = "saved"
    /\ new_test_cases' = Append(new_test_cases, test_case)
    /\ existing_ids' = existing_ids \cup {test_case.id}
    /\ i' = i + 1
    /\ pc' = Iteration(i + 1)
    /\ written' = IF runs = 1 THEN [written EXCEPT ![test_case.id] = test_case]
                   ELSE written
    /\ listed' = listed \cup ListedIds
    /\ lastSave' = SaveRecord(test_case, index, files)
    /\ UNCHANGED <<disk, caller, existing_cases, start_id, test_case, index_data, env,
                   stoppedAt, failures>>
    /\ UNCHANGED others

\* Lines 391-409: the summary reads the directory again; the process ends.
Summary ==
    /\ pc = "summary"
    /\ pc' = "idle"
    /\ NoLocals
    /\ listed' = listed \cup ListedIds
    /\ UNCHANGED <<disk, env, written, stoppedAt, lastSave, failures>>
    /\ UNCHANGED others

----------------------------------------------------------------------------
(* save_test_case, statement by statement (lines 244-278). *)

\* Lines 250-251: open(test_case_path, 'w').
SaveOpenCase ==
    /\ pc = "save_open_case"
    /\ files' = OpenCase(files, test_case.id)
    /\ pc' = AfterStep(pc)
    /\ UNCHANGED <<index, locals, env, history>>
    /\ UNCHANGED others

\* Line 252: json.dump(test_case, f) and the close of the file.
SaveDumpCase ==
    /\ pc = "save_dump_case"
    /\ files' = DumpCase(files, test_case)
    /\ pc' = AfterStep(pc)
    /\ UNCHANGED <<index, locals, env, history>>
    /\ UNCHANGED others

\* Lines 254-274: read index.json, update the list and the metadata in memory.
SaveReadIndex ==
    /\ pc = "save_read_index"
    /\ index_data' = UpdateIndex(ReadIndex(index), test_case.id)
    /\ pc' = AfterStep(pc)
    /\ UNCHANGED <<disk, caller, existing_cases, existing_ids, start_id, i,
                   new_test_cases, test_case, env, history>>
    /\ UNCHANGED others

\* Line 277: open(index_path, 'w').
SaveOpenIndex ==
    /\ pc = "save_open_index"
    /\ index' = PartialIndex
    /\ pc' = AfterStep(pc)
    /\ UNCHANGED <<files, locals, env, history>>
    /\ UNCHANGED others

\* Line 278: json.dump(index_data, f) and the close of the file.
SaveDumpIndex ==
    /\ pc = "save_dump_index"
    /\ index' = OkIndex(index_data)
    /\ pc' = AfterStep(pc)
    /\ UNCHANGED <<files, locals, env, history>>
    /\ UNCHANGED others

\* The statements of save_test_case that write: lines 251, 252, 277, 278.
SaveWritePcs == {"save_open_case", "save_dump_case", "save_open_index", "save_dump_index"}

\* One of them raises OSError (the disk is full, the directory is not
\* writable).  What the statement had not done yet stays undone: a file that
\* was opened stays truncated.  In a batch run the exception is caught at line
\* 384 and the loop goes on with the next i (line 386); a direct caller gets
\* the exception.
SaveFails ==
    /\ pc \in SaveWritePcs
    /\ failures' = failures \cup {"write"}
    /\ lastSave' = NoSave
    /\ IF caller = "main"
       THEN /\ i' = i + 1
            /\ pc' = Iteration(i + 1)
            /\ UNCHANGED <<caller, existing_cases, existing_ids, start_id, new_test_cases,
                           test_case, index_data>>
       ELSE /\ pc' = "idle"
            /\ NoLocals
    /\ UNCHANGED <<disk, env, written, listed, stoppedAt>>
    /\ UNCHANGED others

----------------------------------------------------------------------------
(* A direct call of save_test_case (it is the module's store operation). *)

DirectSave ==
    /\ pc = "idle"
    /\ runs + calls < MaxOps
    /\ calls' = calls + 1
    /\ \E n \in 1..MaxCount, c \in Contents : test_case' = MakeTestCase(n, c)
    /\ caller' = "direct"
    /\ pc' = SaveSteps[1]
    /\ stoppedAt' = "none"
    /\ lastSave' = IF test_case' # lastSave.tc THEN NoSave ELSE lastSave
    /\ failures' = {}
    /\ UNCHANGED <<disk, existing_cases, existing_ids, start_id, i, new_test_cases,
                   index_data, args_count, runs, written, listed>>
    /\ UNCHANGED others

DirectReturn ==
    /\ pc = "returned"
    /\ pc' = "idle"
    /\ NoLocals
    /\ listed' = listed \cup ListedIds
    /\ lastSave' = SaveRecord(test_case, index, files)
    /\ UNCHANGED <<disk, env, written, stoppedAt, failures>>
    /\ UNCHANGED others

----------------------------------------------------------------------------
(* KeyboardInterrupt.  Inside main's loop it is caught (lines 380-383 and      *)
(* 387-389) and the run goes on to the summary; anywhere else it ends the   *)
(* process.  A file that was open for writing stays as it was: truncated.   *)

LoopPcs == {"generate", "saved"} \cup SavePcs

Interrupt ==
    /\ pc \in LoopPcs \cup {"load", "connect", "summary", "returned"}
    /\ stoppedAt' = IF pc \in SavePcs THEN pc ELSE "outside save_test_case"
    /\ lastSave' = IF pc \in SavePcs \cup {"saved", "returned"} THEN NoSave ELSE lastSave
    /\ IF caller = "main" /\ pc \in LoopPcs
       THEN /\ pc' = "summary"
            /\ UNCHANGED locals
       ELSE /\ pc' = "idle"
            /\ NoLocals
    /\ UNCHANGED <<disk, env, written, listed, failures>>
    /\ UNCHANGED others

----------------------------------------------------------------------------
(* Detection and annotation of one text.  The texts are one to MaxPhrases  *)
(* of the phrases below, joined by single spaces.                          *)

Phrases == {
    <<"t", "h", "e", " ", "r", "e", "p", "o", "r", "t">>,
    <<"t", "h", "e", "s", "e", " ", "f", "i", "l", "e", "s">>,
    <<"s", "e", "e">>,
    <<"a", "s", " ", "s", "h", "o", "w", "n", " ", "b", "e", "l", "o", "w">>,
    <<"t", "h", "e", " ", "t", "a", "b", "l", "e", " ", "b", "e", "l", "o", "w">>
}

RECURSIVE Texts(_)
Texts(n) ==
    IF n = 1 THEN Phrases
    ELSE Texts(n - 1) \cup {t \o <<" ">> \o p : t \in Texts(n - 1), p \in Phrases}

TextIdle ==
    /\ t_pc = "off"
    /\ t_prompt = <<>>
    /\ t_refs = <<>>
    /\ t_annotated = <<>>

TextInit ==
    /\ t_pc = "text"
    /\ t_prompt \in Texts(MaxPhrases)
    /\ t_refs = <<>>
    /\ t_annotated = <<>>

\* Lines 109-131.
Detect ==
    /\ t_pc = "text"
    /\ t_refs' = detect_references_in_prompt(t_prompt)
    /\ t_pc' = "detected"
    /\ UNCHANGED <<t_prompt, t_annotated, flatVars, caseVars, hierVars, laterVars>>

\* Lines 89-107.
Annotate ==
    /\ t_pc = "detected"
    /\ t_annotated' = annotate_prompt(t_prompt, t_refs)
    /\ t_pc' = "annotated"
    /\ UNCHANGED <<t_prompt, t_refs, flatVars, caseVars, hierVars, laterVars>>

TextNext ==
    \/ Detect
    \/ Annotate

----------------------------------------------------------------------------
(* One call of generate_test_case_with_llm.  The service's answers are     *)
(* drawn from the sets below: a prompt that is too short or long enough;   *)
(* references and codes supplied or not; extension replies that are empty, *)
(* slightly longer than the prompt, long enough, quoted or fenced.         *)

Padding(n) == [k \in 1..n |-> IF k % 6 = 0 THEN " " ELSE "x"]

Opening ==
    <<"P", "l", "e", "a", "s", "e", " ", "r", "e", "v", "i", "e", "w", " ", "t", "h", "e", " ",
    "r", "e", "p", "o", "r", "t", " ", "a", "n", "d", " ", "t", "h", "e", "s", "e", " ", "f",
    "i", "l", "e", "s", ".", " ">>

ShortPrompt == Opening \o Padding(ShortPromptLength - Len(Opening))

LongPrompt == Opening \o Padding(MIN_PROMPT_LENGTH - Len(Opening))

CasePrompts == {ShortPrompt, LongPrompt}

\* A prompt, long enough, in which a reference occurs twice in the same words.
Again == <<"S", "e", "n", "d", " ", "t", "h", "e", " ", "r", "e", "p", "o", "r", "t", ".", " ">>

RepeatingPrompt == Opening \o Again \o Padding(MIN_PROMPT_LENGTH - Len(Opening) - Len(Again))

\* References the service may supply: none, one with accurate offsets, one
\* with wrong offsets, one whose text is not in the prompt.
AccurateRef == Ref(<<"t", "h", "e", " ", "r", "e", "p", "o", "r", "t">>, 14, 24, "definite_noun")

MisplacedRef == Ref(<<"t", "h", "e", " ", "r", "e", "p", "o", "r", "t">>, 0, 10, "definite_noun")

ForeignRef == Ref(<<"t", "h", "e", " ", "m", "e", "m", "o">>, 10, 18, "definite_noun")

SuppliedReferences == {<<>>, <<AccurateRef>>, <<MisplacedRef>>, <<ForeignRef>>}

SuppliedCodes == {<<>>, <<"MISSING_REFERENCE">>}

Messages == <<[role |-> "user", content |-> "Please review."]>>

MinimalObjects == {[messages |-> Messages, prompt |-> p] : p \in CasePrompts}

WithOptional(objs, key, values) ==
    objs \cup {Put(o, key, v) : o \in objs, v \in values}

JsonObjects ==
    WithOptional(WithOptional(MinimalObjects, "missing_references", SuppliedReferences),
                 "expected_issue_codes", SuppliedCodes)

Responses ==
    {[text |-> t, obj |-> EmptyDict] : t \in {"empty", "no_braces", "not_json"}}
    \cup {[text |-> "json", obj |-> o] : o \in JsonObjects}
    \cup {[text |-> "json", obj |-> [messages |-> Messages]],
          [text |-> "json", obj |-> [prompt |-> ShortPrompt]],
          [text |-> "json", obj |-> [messages |-> Messages, prompt |-> RepeatingPrompt]],
          [text |-> "bad_types", obj |-> [messages |-> Messages, prompt |-> 0]]}

LongReply == LongPrompt \o <<" ", "S", "e", "e", " ", "t", "h", "e", " ", "t", "a", "b", "l", "e", " ", "b", "e", "l", "o", "w", ".">>

Quoted(s) == <<"\"">> \o s \o <<"\"">>

Fenced(s) == <<Backtick, Backtick, Backtick, "\n">> \o s
                 \o <<"\n", Backtick, Backtick, Backtick>>

FirstReplies ==
    {<<>>, ShortPrompt \o <<" ", "a", "n", "d", " ", "m", "o", "r", "e">>, LongReply, Quoted(LongReply), Fenced(LongReply)}

FinalReplies == {<<>>, LongReply}

CaseSectors == {SECTORS[1], SECTORS[2]}

CasePatternTypes == {"missing_definite", "resolved"}

CaseIdle ==
    /\ c_pc = "off"
    /\ c_sector = <<>>
    /\ c_pattern_type = ""
    /\ c_response = [text |-> "empty", obj |-> EmptyDict]
    /\ c_replies = <<>>
    /\ c_result = ReturnNone

CaseInit ==
    /\ c_pc = "call"
    /\ c_sector \in CaseSectors
    /\ c_pattern_type \in CasePatternTypes
    /\ c_response \in Responses
    /\ c_replies \in FirstReplies \X FinalReplies
    /\ c_result = ReturnNone

\* Lines 235-324.
GenerateCase ==
    /\ c_pc = "call"
    /\ c_result' = generate_test_case_with_llm(c_sector, c_pattern_type, c_response,
                                               c_replies)
    /\ c_pc' = "done"
    /\ UNCHANGED <<c_sector, c_pattern_type, c_response, c_replies, flatVars, textVars, hierVars,
                   laterVars>>

CaseNext == GenerateCase

----------------------------------------------------------------------------
(* The hierarchical generator: runs of main on one output directory.  The  *)
(* service answers each test case request with one of the answers below,   *)
(* and delivers at most MaxGood test cases.                                *)

Answer(text, obj, replies) == [response |-> [text |-> text, obj |-> obj], replies |-> replies]

BatchAnswers ==
    <<Answer("empty", EmptyDict, <<>>),
     Answer("no_braces", EmptyDict, <<>>),
     Answer("not_json", EmptyDict, <<>>),
     Answer("json", [messages |-> Messages], <<>>),
     Answer("bad_types", [messages |-> Messages, prompt |-> 0], <<>>),
     Answer("json", [messages |-> Messages, prompt |-> LongPrompt], <<>>)>>

TotalCases == {FewCases, ManyCases}

\* The runs on the output directory: one that finds it empty, and one that
\* finds what the first left behind.
Invocations == <<"first", "second">>

\* The sectors and pattern types that get a slot.
PlannedPairs ==
    {<<pair[1], pair[2]>> :
        pair \in {p \in (0..(Len(SECTORS) - 1)) \X (0..(Len(PATTERN_TYPES) - 1)) :
                     \E total \in TotalCases : PatternCount(total, p[1], p[2]) > 0}}

\* What generate_test_case_with_llm returns in a slot of the plan, by answer.
Outcome ==
    [pair \in PlannedPairs, a \in DOMAIN BatchAnswers |->
        generate_test_case_with_llm(SECTORS[pair[1] + 1], PATTERN_TYPES[pair[2] + 1],
                                    BatchAnswers[a].response, BatchAnswers[a].replies)]

\* The process and the files hold a test case by the slot and the answer it
\* was generated from, <<sector_idx, pattern_idx, answer>>; CaseOf is the case.
NoHandle == <<Len(SECTORS), 0, 0>>

CaseOf(handle) == Outcome[<<handle[1], handle[2]>>, handle[3]].case

\* What a file written from the case of `handle` holds.
Written(handle, name) == Closed([case |-> handle, name |-> name])

ContentOf(file) == FileContent(CaseOf(file.content.case), file.content.name)

NoNumbers == [s \in Range(SECTORS) |-> <<>>]

NoSuccesses == [s \in Range(SECTORS) |-> 0]

HierNoLocals ==
    /\ test_cases' = <<>>
    /\ sector_test_numbers' = FirstNumbers
    /\ sector_idx' = 0
    /\ pattern_idx' = 0
    /\ case_num' = 0
    /\ h_test_case' = NoHandle
    /\ test_number' = 0
    /\ outcomes' = <<>>
    /\ numbers' = NoNumbers
    /\ successes' = NoSuccesses

HierIdle ==
    /\ outdir = [p \in {} |-> NoFiles]
    /\ hpc = "idle"
    /\ test_cases = <<>>
    /\ sector_test_numbers = FirstNumbers
    /\ sector_idx = 0
    /\ pattern_idx = 0
    /\ case_num = 0
    /\ h_test_case = NoHandle
    /\ test_number = 0
    /\ total_cases = 0
    /\ hruns = 0
    /\ good = 0
    /\ at_start = [p \in {} |-> NoFiles]
    /\ ended = "none"
    /\ exit_status = 0
    /\ check_found = "nothing"
    /\ outcomes = <<>>
    /\ numbers = NoNumbers
    /\ successes = NoSuccesses

HierInit ==
    /\ outdir = [p \in {} |-> NoFiles]
    /\ hpc = "idle"
    /\ test_cases = <<>>
    /\ sector_test_numbers = FirstNumbers
    /\ sector_idx = 0
    /\ pattern_idx = 0
    /\ case_num = 0
    /\ h_test_case = NoHandle
    /\ test_number = 0
    /\ total_cases \in TotalCases
    /\ hruns = 0
    /\ good = 0
    /\ at_start = [p \in {} |-> NoFiles]
    /\ ended = "none"
    /\ exit_status = 0
    /\ check_found = "nothing"
    /\ outcomes = <<>>
    /\ numbers = NoNumbers
    /\ successes = NoSuccesses

hlocals == <<test_cases, sector_test_numbers, sector_idx, pattern_idx, case_num,
             h_test_case, test_number>>
henv == <<total_cases, hruns, good>>
hend == <<ended, exit_status, check_found>>
notHier == <<flatVars, textVars, caseVars, laterVars>>

\* The loops go on to `slot`, or end.
GoTo(slot) ==
        /\ sector_idx' = slot[1]
        /\ pattern_idx' = slot[2]
        /\ case_num' = slot[3]
        /\ hpc' = IF slot = NoSlot THEN "statistics" ELSE "request"

sector == SECTORS[sector_idx + 1]

\* What the check of lines 465-483 can find wrong: the model is not among
\* those the service lists (lines 473-476), the service answers with another
\* status than 200 (lines 477-479), or it cannot be reached (lines 480-483).
CheckFailures == {"model_missing", "bad_status", "unreachable"}

\* main, lines 456-489, and generate_dataset up to the first slot, lines
\* 372-389: the check is not asked for, or it passes (line 472).
\* os.makedirs(args.outdir, exist_ok=True) leaves what is there.
StartRun ==
    /\ hpc = "idle"
    /\ hruns < Len(Invocations)
    /\ hruns' = hruns + 1
    /\ \E check_ollama \in BOOLEAN : check_found' = "nothing"
    /\ test_cases' = <<>>
    /\ sector_test_numbers' = FirstNumbers
    /\ GoTo(FirstSlotFrom(total_cases, 0, 0))
    /\ at_start' = outdir
    /\ outcomes' = <<>>
    /\ numbers' = NoNumbers
    /\ successes' = NoSuccesses
    /\ UNCHANGED <<outdir, h_test_case, test_number, total_cases, good, ended,
                   exit_status>>
    /\ UNCHANGED notHier

\* main, lines 456-483, with --check-ollama: the check finds something wrong
\* and main returns (lines 476, 479, 483).
CheckFails ==
    /\ hpc = "idle"
    /\ hruns < Len(Invocations)
    /\ hruns' = hruns + 1
    /\ check_found' \in CheckFailures
    /\ at_start' = outdir
    /\ ended' = "returned"
    /\ exit_status' = 0
    /\ UNCHANGED <<outdir, hpc, hlocals, total_cases, good, outcomes, numbers, successes>>
    /\ UNCHANGED notHier

\* The process ends on an exception that nothing catches, or is killed.
Dies ==
    /\ hpc' = "idle"
    /\ ended' = "interrupted"
    /\ exit_status' = 1
    /\ HierNoLocals
    /\ UNCHANGED <<outdir, total_cases, hruns, at_start, check_found>>

\* A call of generate_test_case_with_llm, answered with answer a, has returned
\* `result`; `again` is where control goes when the call is to be made once more.
Returns(a, result, again) ==
    IF result.ret = "raise" THEN Dies /\ good' = good
    ELSE /\ good' = IF result.ret = "case" THEN good + 1 ELSE good
         /\ outcomes' = IF hpc = "request" THEN <<result.ret>>
                        ELSE Append(outcomes, result.ret)
         /\ IF result.ret = "case"
            THEN /\ h_test_case' = <<sector_idx, pattern_idx, a>>
                 /\ test_number' = sector_test_numbers[sector]
                 /\ successes' = [successes EXCEPT ![sector] = @ + 1]
                 /\ hpc' = "makedirs"
                 /\ UNCHANGED <<sector_idx, pattern_idx, case_num>>
            ELSE /\ UNCHANGED <<h_test_case, test_number, successes>>
                 /\ IF again = "retry"
                    THEN hpc' = "retry" /\ UNCHANGED <<sector_idx, pattern_idx, case_num>>
                    ELSE GoTo(NextSlot(total_cases, <<sector_idx, pattern_idx, case_num>>))
         /\ UNCHANGED <<outdir, test_cases, sector_test_numbers, total_cases, hruns,
                        at_start, hend, numbers>>

\* What the service may answer now.
Answers == {a \in DOMAIN BatchAnswers :
               Outcome[<<sector_idx, pattern_idx>>, a].ret = "case" => good < MaxGood}

\* Lines 390-392 and 403.
Request ==
    /\ hpc = "request"
    /\ \E a \in Answers :
          LET result == Outcome[<<sector_idx, pattern_idx>>, a]
          IN  Returns(a, result, IF NeedsRetry(result) THEN "retry" ELSE "next")
    /\ UNCHANGED notHier

\* Lines 405-407.
Retry ==
    /\ hpc = "retry"
    /\ \E a \in Answers : Returns(a, Outcome[<<sector_idx, pattern_idx>>, a], "next")
    /\ UNCHANGED notHier

\* Lines 332-334.
MakeTestDir ==
    /\ hpc = "makedirs"
    /\ outdir' = MakeDirs(outdir, TestDir(sector, test_number))
    /\ numbers' = [numbers EXCEPT ![sector] = Append(@, test_number)]
    /\ hpc' = AfterWriteStep(hpc)
    /\ UNCHANGED <<hlocals, henv, at_start, hend, outcomes, successes>>
    /\ UNCHANGED notHier

\* The file the statement at p opens or writes.
FileAt(p) == FileNames[WriteStepNo(p) \div 2]

\* Lines 338, 343, 353, 362: open(..., 'w').
OpenFile ==
    /\ hpc \in {"open_prompt", "open_history", "open_expected", "open_annotated"}
    /\ outdir' = PutFile(outdir, TestDir(sector, test_number), FileAt(hpc), Opened)
    /\ hpc' = AfterWriteStep(hpc)
    /\ UNCHANGED <<hlocals, henv, at_start, hend, outcomes, numbers, successes>>
    /\ UNCHANGED notHier

\* Lines 339, 344, 354, 363: the content is written and the file closed.
WriteFile ==
    /\ hpc \in {"write_prompt", "dump_history", "dump_expected", "write_annotated"}
    /\ outdir' = PutFile(outdir, TestDir(sector, test_number), FileAt(hpc),
                         Written(h_test_case, FileAt(hpc)))
    /\ hpc' = AfterWriteStep(hpc)
    /\ UNCHANGED <<hlocals, henv, at_start, hend, outcomes, numbers, successes>>
    /\ UNCHANGED notHier

\* Lines 395-402 and 409-418, and on to the next slot.
Record ==
    /\ hpc = "record"
    /\ test_cases' = Append(test_cases, Entry(h_test_case, sector, test_number))
    /\ sector_test_numbers' = [sector_test_numbers EXCEPT ![sector] = NextNumber(@)]
    /\ GoTo(NextSlot(total_cases, <<sector_idx, pattern_idx, case_num>>))
    /\ UNCHANGED <<outdir, h_test_case, test_number, henv, at_start, hend, outcomes,
                   numbers, successes>>
    /\ UNCHANGED notHier

\* Lines 421 and 492, print_statistics (lines 423-452); the process ends.
Statistics ==
    /\ hpc = "statistics"
    /\ hpc' = "idle"
    /\ ended' = "returned"
    /\ exit_status' = 0
    /\ HierNoLocals
    /\ UNCHANGED <<outdir, henv, at_start, check_found>>
    /\ UNCHANGED notHier

\* The process is killed, at any statement.
Kill ==
    /\ hpc # "idle"
    /\ Dies
    /\ good' = good
    /\ UNCHANGED notHier

HierNext ==
    \/ StartRun
    \/ CheckFails
    \/ Request
    \/ Retry
    \/ MakeTestDir
    \/ OpenFile
    \/ WriteFile
    \/ Record
    \/ Statistics
    \/ Kill

----------------------------------------------------------------------------
(* The three loops of generate_dataset (lines 379, 388, 391) on their own, *)
(* with a body that only counts the slot it is run for.                    *)

Cells == (0..(Len(SECTORS) - 1)) \X (0..(Len(PATTERN_TYPES) - 1))

NothingPlanned == [cell \in Cells |-> 0]

PlanIdle ==
    /\ plan_pc = "off"
    /\ plan_total = 0
    /\ plan_sector_idx = 0
    /\ plan_pattern_idx = 0
    /\ plan_case_num = 0
    /\ planned = NothingPlanned

\* Lines 372-377: the function is entered with total_cases >= 0.
PlanInit ==
    /\ plan_pc = "for_sector"
    /\ plan_total \in 0..MaxTotal
    /\ plan_sector_idx = 0
    /\ plan_pattern_idx = 0
    /\ plan_case_num = 0
    /\ planned = NothingPlanned

planFrame == <<flatVars, textVars, caseVars, hierVars, loadVars>>

\* Line 379, for sector_idx, sector in enumerate(SECTORS): the next sector,
\* or the return of line 421.
ForSector ==
    /\ plan_pc = "for_sector"
    /\ IF plan_sector_idx < Len(SECTORS)
       THEN plan_pc' = "for_pattern" /\ plan_pattern_idx' = 0
       ELSE plan_pc' = "returned" /\ UNCHANGED plan_pattern_idx
    /\ UNCHANGED <<plan_total, plan_sector_idx, plan_case_num, planned>>
    /\ UNCHANGED planFrame

\* Line 388, for pattern_idx, pattern_type in enumerate(PATTERN_TYPES).
ForPattern ==
    /\ plan_pc = "for_pattern"
    /\ IF plan_pattern_idx < Len(PATTERN_TYPES)
       THEN /\ plan_pc' = "for_case"
            /\ plan_case_num' = 0
            /\ UNCHANGED plan_sector_idx
       ELSE /\ plan_pc' = "for_sector"
            /\ plan_sector_idx' = plan_sector_idx + 1
            /\ UNCHANGED plan_case_num
    /\ UNCHANGED <<plan_total, plan_pattern_idx, planned>>
    /\ UNCHANGED planFrame

\* Line 391, for case_num in range(pattern_count), and the body of the loop
\* (lines 392-419), which is run once for the slot.
ForCase ==
    /\ plan_pc = "for_case"
    /\ IF plan_case_num < PatternCount(plan_total, plan_sector_idx, plan_pattern_idx)
       THEN /\ planned' = [planned EXCEPT ![<<plan_sector_idx, plan_pattern_idx>>] = @ + 1]
            /\ plan_case_num' = plan_case_num + 1
            /\ UNCHANGED <<plan_pc, plan_pattern_idx>>
       ELSE /\ plan_pc' = "for_pattern"
            /\ plan_pattern_idx' = plan_pattern_idx + 1
            /\ UNCHANGED <<plan_case_num, planned>>
    /\ UNCHANGED <<plan_total, plan_sector_idx>>
    /\ UNCHANGED planFrame

PlanNext ==
    \/ ForSector
    \/ ForPattern
    \/ ForCase

----------------------------------------------------------------------------
(* One call of load_existing_dataset (lines 215-241 of generate_dataset.py) *)
(* on a dataset directory as a writer that was stopped can leave it: a     *)
(* file is absent, complete, cut off, or cut off inside a character.       *)

\* A file cut off inside a multi-byte character of its UTF-8 text: reading
\* it raises UnicodeDecodeError, which is neither a JSONDecodeError nor an
\* IOError.  (json.dump writes with ensure_ascii=False.)
UndecodableFile == [st |-> "undecodable", tc |-> NoCase]

UndecodableIndex == [st |-> "undecodable", data |-> EmptyIndexData]

\* Lines 222-223 and 230-231: a json.load raises what lines 233 and 238 do
\* not catch.  The case files are read in the order of the index.
LoadRaises(idx, fs) ==
    \/ idx.st = "undecodable"
    \/ /\ idx.st = "ok"
       /\ \E k \in 1..Len(idx.data.testCases) : fs[idx.data.testCases[k]].st = "undecodable"

LoadOutcome(idx, fs) ==
    IF LoadRaises(idx, fs) THEN [ret |-> "raise", cases |-> <<>>]
    ELSE [ret |-> "return", cases |-> load_existing_dataset(idx, fs)]

\* The directories of the call: ids 1..MaxCount, listed or not.
LoadIds == {FormatId(n) : n \in 1..MaxCount}

RECURSIVE IdLists(_)
IdLists(n) ==
    IF n = 0 THEN {<<>>}
    ELSE IdLists(n - 1)
         \cup {Append(l, id) : l \in {m \in IdLists(n - 1) : Len(m) = n - 1},
                               id \in LoadIds}

LoadIndexes ==
    {AbsentIndex, PartialIndex, UndecodableIndex}
    \cup {OkIndex([testCases |-> l, metadata |-> [totalTestCases |-> Len(l)]]) :
             l \in {m \in IdLists(MaxCount) : Cardinality(Range(m)) = Len(m)}}

LoadFileStates(id) ==
    {AbsentFile, PartialFile, UndecodableFile}
    \cup {OkFile([id |-> id, prompt |-> c.prompt, messages |-> c.messages]) : c \in Contents}

NoLoadResult == [ret |-> "none", cases |-> <<>>]

LoadIdle ==
    /\ load_pc = "off"
    /\ load_index = AbsentIndex
    /\ load_files = [id \in LoadIds |-> AbsentFile]
    /\ load_result = NoLoadResult

LoadInit ==
    /\ load_pc = "call"
    /\ load_index \in LoadIndexes
    /\ load_files \in [LoadIds -> UNION {LoadFileStates(id) : id \in LoadIds}]
    /\ \A id \in LoadIds : load_files[id] \in LoadFileStates(id)
    /\ load_result = NoLoadResult

LoadCall ==
    /\ load_pc = "call"
    /\ load_result' = LoadOutcome(load_index, load_files)
    /\ load_pc' = "done"
    /\ UNCHANGED <<load_index, load_files>>
    /\ UNCHANGED <<flatVars, textVars, caseVars, hierVars, planVars>>

LoadNext == LoadCall

----------------------------------------------------------------------------

BatchNext ==
    \/ StartMain
    \/ LoadExisting
    \/ TestConnection
    \/ Generate
    \/ AfterSave
    \/ Summary
    \/ SaveOpenCase
    \/ SaveDumpCase
    \/ SaveReadIndex
    \/ SaveOpenIndex
    \/ SaveDumpIndex
    \/ SaveFails
    \/ Interrupt

Next ==
    \/ BatchNext
    \/ DirectSave
    \/ DirectReturn

FlatIdle == FlatInit /\ args_count = 0

Init == FlatInit /\ TextIdle /\ CaseIdle /\ HierIdle /\ PlanIdle /\ LoadIdle

InitText == TextInit /\ FlatIdle /\ CaseIdle /\ HierIdle /\ PlanIdle /\ LoadIdle

InitCase == CaseInit /\ FlatIdle /\ TextIdle /\ HierIdle /\ PlanIdle /\ LoadIdle

InitHier == HierInit /\ FlatIdle /\ TextIdle /\ CaseIdle /\ PlanIdle /\ LoadIdle

InitPlan == PlanInit /\ FlatIdle /\ TextIdle /\ CaseIdle /\ HierIdle /\ LoadIdle

InitLoad == LoadInit /\ FlatIdle /\ TextIdle /\ CaseIdle /\ HierIdle /\ PlanIdle

Spec == Init /\ [][Next]_vars

SpecBatch == Init /\ [][BatchNext]_vars

SpecText == InitText /\ [][TextNext]_vars

SpecCase == InitCase /\ [][CaseNext]_vars

SpecHier == InitHier /\ [][HierNext]_vars


SpecPlan == InitPlan /\ [][PlanNext]_vars

SpecLoad == InitLoad /\ [][LoadNext]_vars
----------------------------------------------------------------------------
(* Claims about the flat generator. *)

\* C1: every id that index.json lists has its case file on disk, in every
\* reachable state, also after an interrupt between the write of the case
\* file and the write of the index.
C1_IndexedHaveFile == \A id \in ListedIds : files[id].st # "absent"

\* A process was interrupted between the two writes: the case file is there
\* and complete, the index is as it was and does not list it.
C1_Witness ==
    /\ pc = "idle"
    /\ stoppedAt \in {"save_read_index", "save_open_index"}
    /\ index.st # "partial"
    /\ \E id \in CaseIds : files[id].st = "ok" /\ id \notin ListedIds

\* C2: save_test_case is idempotent.  A call that completes right after a
\* completed call with the same test case leaves the id list as long as the
\* first call left it, with the id in it once, and the case file the same;
\* and from every directory the program can leave behind, two calls in a row
\* leave what one call leaves.
C2_Idempotent ==
    /\ (pc \in {"saved", "returned"} /\ lastSave.tc = test_case) =>
          /\ Len(index.data.testCases) = Len(lastSave.ids)
          /\ Cardinality({k \in 1..Len(index.data.testCases) :
                             index.data.testCases[k] = test_case.id}) = 1
          /\ files[test_case.id] = lastSave.file
    /\ pc = "idle" =>
          \A n \in 1..MaxCount, c \in Contents :
             LET tc == MakeTestCase(n, c)
                 once == save_test_case([files |-> files, index |-> index], tc)
                 twice == save_test_case(once, tc)
             IN  /\ Len(twice.index.data.testCases) = Len(once.index.data.testCases)
                 /\ twice.files[tc.id] = once.files[tc.id]
                 /\ Cardinality({k \in 1..Len(twice.index.data.testCases) :
                                    twice.index.data.testCases[k] = tc.id}) = 1

\* The second of two calls in a row with the same test case has completed.
C2_Witness ==
    /\ pc = "returned"
    /\ lastSave.tc = test_case
    /\ index.st = "ok"
    /\ Len(index.data.testCases) = 1

\* C3: after a batch run that saved K cases and a second run with the same
\* count that ran to its end, the directory holds at least K valid indexed cases and every case
\* the first run saved is still on disk as the first run wrote it.
ValidIndexed == {id \in ListedIds : files[id].st = "ok"}

WrittenIds == {id \in CaseIds : written[id] # NoCase}

C3_Resumable ==
    (runs >= 2 /\ pc = "idle" /\ stoppedAt = "none") =>
        /\ Cardinality(ValidIndexed) >= Cardinality(WrittenIds)
        /\ \A id \in WrittenIds : files[id] = OkFile(written[id])

\* C4: the id list of index.json only grows: whenever index.json is read, it
\* lists every id it listed at the end of an earlier save or run.
C4_AppendOnly == index.st = "ok" => listed \subseteq ListedIds


\* C16 (the flat generator): once a write of a case has raised, the batch
\* run is out of its loop: it neither generates nor saves another case.
C16_WriteFailureEndsBatch ==
    (caller = "main" /\ "write" \in failures) => pc \notin LoopPcs

\* C18: a batch run that comes to its summary with no request and no write
\* failed, and not interrupted, has saved --count new cases.
C18_CountNewCases ==
    (caller = "main" /\ pc = "summary" /\ failures = {} /\ stoppedAt = "none") =>
        Len(new_test_cases) = args_count

\* The records of the cases that index.json lists and whose files are there
\* and parse, in the order of the index; none when the index cannot be read.
Loadable(idx, fs) ==
    IF idx.st # "ok" THEN <<>>
    ELSE LET Loads(id) == fs[id].st = "ok"
             ids == SelectSeq(idx.data.testCases, Loads)
         IN  [k \in 1..Len(ids) |-> fs[ids[k]].tc]

\* C17: a call of load_existing_dataset returns, whatever the directory
\* holds, and returns the loadable cases in index order.
C17_LoadNeverFails ==
    load_pc = "done" =>
        /\ load_result.ret = "return"
        /\ load_result.cases = Loadable(load_index, load_files)
----------------------------------------------------------------------------
(* Claims about annotate_prompt and generate_test_case_with_llm. *)

\* str.count(t): the occurrences of t in s, counted from the left without overlap.
RECURSIVE CountOf(_, _)
CountOf(s, t) ==
    LET at == Find(s, t)
    IN  IF at = -1 THEN 0 ELSE 1 + CountOf(SliceFrom(s, at + Len(t)), t)

\* str.replace(t, ""): s with those occurrences taken out.
RECURSIVE Without(_, _)
Without(s, t) ==
    LET at == Find(s, t)
    IN  IF at = -1 THEN s
        ELSE SliceTo(s, at) \o Without(SliceFrom(s, at + Len(t)), t)

\* C10: the annotation of a text with the references detected in it has as
\* many markers as there are references and, with the markers taken out, is
\* the text.
C10_MarkersAndText ==
    t_pc = "annotated" =>
        /\ CountOf(t_annotated, MARKER) = Len(t_refs)
        /\ Without(t_annotated, MARKER) = t_prompt

\* The case in hand, once generate_test_case_with_llm has returned one.
Returned == c_pc = "done" /\ c_result.ret = "case"

\* C7: a returned test case has a prompt of at least MIN_PROMPT_LENGTH
\* characters, whatever the service answered.
C7_PromptLongEnough ==
    Returned => Len(c_result.case["prompt"]) >= MIN_PROMPT_LENGTH

\* A reference that lies where it says in the prompt.
Located(ref, prompt) ==
    /\ {"text", "start", "end"} \subseteq DOMAIN ref
    /\ ref["start"] >= 0
    /\ ref["end"] <= Len(prompt)
    /\ Slice(prompt, ref["start"], ref["end"]) = ref["text"]

\* C8: every reference of a returned test case has the offsets of its text
\* in the returned prompt.
C8_ReferencesLocated ==
    Returned =>
        \A k \in 1..Len(c_result.case["missing_references"]) :
            Located(c_result.case["missing_references"][k], c_result.case["prompt"])

\* C9: a returned case of class resolved has no reference and no expected
\* code; a returned case of any other class has a reference and the code
\* MISSING_REFERENCE.
C9_ClassDecidesExpectation ==
    Returned =>
        IF c_pattern_type = "resolved"
        THEN /\ c_result.case["missing_references"] = <<>>
             /\ c_result.case["expected_issue_codes"] = <<>>
        ELSE /\ Len(c_result.case["missing_references"]) >= 1
             /\ "MISSING_REFERENCE" \in Range(c_result.case["expected_issue_codes"])


\* C19: no two references of a returned test case have the same start and end.
C19_NoDuplicateSpans ==
    Returned =>
        \A j, k \in 1..Len(c_result.case["missing_references"]) :
            j < k =>
                LET a == c_result.case["missing_references"][j]
                    b == c_result.case["missing_references"][k]
                IN  <<Get(a, "start", 0), Get(a, "end", 0)>> # <<Get(b, "start", 0), Get(b, "end", 0)>>
----------------------------------------------------------------------------
(* Claims about the hierarchical generator. *)

\* A test directory that holds the four files of a case, each complete.
Persisted(dir, path) ==
    /\ path \in DOMAIN dir
    /\ \A k \in 1..Len(FileNames) :
          /\ FileNames[k] \in DOMAIN dir[path]
          /\ dir[path][FileNames[k]].st = "ok"

\* Two files hold the same.
SameFile(f, g) ==
    \/ f = g
    \/ f.st = "ok" /\ g.st = "ok" /\ ContentOf(f) = ContentOf(g)

\* A test directory of the output directory is as the run found it.
Untouched(path) ==
    /\ path \in DOMAIN outdir
    /\ DOMAIN outdir[path] = DOMAIN at_start[path]
    /\ \A name \in DOMAIN at_start[path] : SameFile(outdir[path][name], at_start[path][name])

\* C5: a second run on an output directory that holds the cases of an
\* earlier, interrupted run leaves the files of every case persisted before
\* as they are, and writes under no test number of the sector that a
\* persisted case had on disk when the run started.
C5_ResumeKeepsCases ==
    (hruns = 2 /\ ended = "interrupted") =>
        /\ \A path \in DOMAIN at_start : Persisted(at_start, path) => Untouched(path)
        /\ \A s \in Range(SECTORS) : \A k \in 1..Len(numbers[s]) :
              ~Persisted(at_start, TestDir(s, numbers[s][k]))

\* The numbers 1..n in order.
UpTo(n) == [k \in 1..n |-> k]

\* The slot in hand is of sector s and the process is at one of the statements ps.
InHand(s, ps) == hpc \in ps /\ sector = s

\* C6: a slot gets at most two attempts, the second exactly when the first
\* returned no case; the test numbers a run has written for a sector are
\* 1..k in order, each once, for the k attempts of the sector that returned a
\* case, and the sector's running number is advanced by these alone, so a
\* slot whose retry fails writes nothing and leaves the number as it is.
C6_RetryOnceAndNumbering ==
    /\ Len(outcomes) <= 2
    /\ Len(outcomes) = 2 => outcomes[1] = "None"
    /\ hpc = "retry" => outcomes = <<"None">>
    /\ (outcomes # <<>> /\ outcomes[1] = "None" /\ hpc # "retry") => Len(outcomes) = 2
    /\ \A s \in Range(SECTORS) :
          /\ numbers[s] = UpTo(Len(numbers[s]))
          /\ Len(numbers[s]) = successes[s] - (IF InHand(s, {"makedirs"}) THEN 1 ELSE 0)
          /\ sector_test_numbers[s] =
                1 + successes[s] - (IF InHand(s, WritePcs \cup {"record"}) THEN 1 ELSE 0)

\* A run has written two cases for the first sector, under 1 and 2, and has
\* then given up a slot of the second sector after two failed attempts.
C6_Witness ==
    /\ hpc = "request"
    /\ outcomes = <<"None", "None">>
    /\ numbers[SECTORS[1]] = <<1, 2>>
    /\ numbers[SECTORS[2]] = <<>>
    /\ sector_test_numbers[SECTORS[2]] = 1
    /\ sector_idx = 2


\* C15 (the hierarchical generator): a process whose startup check found the
\* service unreachable has ended with a non-zero exit status and has written
\* nothing; every other process that has ended has ended with status zero.
C15_ExitStatus ==
    (hpc = "idle" /\ hruns > 0) =>
        IF check_found = "unreachable"
        THEN exit_status # 0 /\ outdir = at_start
        ELSE exit_status = 0
----------------------------------------------------------------------------
(* Claims about where annotate_prompt puts the markers. *)

\* The marker stands at offset p of s.
MarkerAt(s, p) ==
    /\ p + Len(MARKER) <= Len(s)
    /\ Slice(s, p, p + Len(MARKER)) = MARKER

\* C11: the annotation of a text has, for every reference, a marker right
\* after the end of the reference: what precedes that marker is, with the
\* markers taken out, the text up to the end of the reference.
C11_MarkerAfterEachEnd ==
    t_pc = "annotated" =>
        \A k \in 1..Len(t_refs) :
            \E p \in 0..Len(t_annotated) :
                /\ MarkerAt(t_annotated, p)
                /\ Without(SliceTo(t_annotated, p), MARKER) = SliceTo(t_prompt, t_refs[k].end)

----------------------------------------------------------------------------
(* Claims about detect_references_in_prompt. *)

\* Rule n of REFERENCE_PATTERNS matches text s from start to end.
RuleMatches(n, s, start, end) ==
    \E mt \in Range(Matches(REFERENCE_PATTERNS[n].re, s)) :
        mt.start = start /\ mt.end = end

\* The first rule, in the order of REFERENCE_PATTERNS, that matches s from
\* start to end.
FirstRule(s, start, end) ==
    CHOOSE n \in 1..Len(REFERENCE_PATTERNS) :
        /\ RuleMatches(n, s, start, end)
        /\ \A o \in 1..(n - 1) : ~RuleMatches(o, s, start, end)

\* C14: the references detected in a text are what a second call returns;
\* they are in ascending order of start, no two of them have the same start
\* and end, each lies within the text and carries the text between its
\* offsets, each has the type of the first rule that matches its range, and
\* every match of every rule is among them.
C14_DetectedReferences ==
    t_pc \in {"detected", "annotated"} =>
        /\ t_refs = detect_references_in_prompt(t_prompt)
        /\ \A j, k \in 1..Len(t_refs) :
               j < k => /\ t_refs[j].start <= t_refs[k].start
                        /\ <<t_refs[j].start, t_refs[j].end>> # <<t_refs[k].start, t_refs[k].end>>
        /\ \A k \in 1..Len(t_refs) :
               /\ 0 <= t_refs[k].start
               /\ t_refs[k].start < t_refs[k].end
               /\ t_refs[k].end <= Len(t_prompt)
               /\ t_refs[k].text = Slice(t_prompt, t_refs[k].start, t_refs[k].end)
               /\ \E n \in 1..Len(REFERENCE_PATTERNS) :
                      RuleMatches(n, t_prompt, t_refs[k].start, t_refs[k].end)
               /\ t_refs[k].type =
                      REFERENCE_PATTERNS[FirstRule(t_prompt, t_refs[k].start, t_refs[k].end)].type
        /\ \A n \in 1..Len(REFERENCE_PATTERNS) :
               \A mt \in Range(Matches(REFERENCE_PATTERNS[n].re, t_prompt)) :
                   \E k \in 1..Len(t_refs) :
                       t_refs[k].start = mt.start /\ t_refs[k].end = mt.end

\* A text in which two rules of different types match the same range, and
\* two references overlap.
C14_Witness ==
    /\ t_pc = "detected"
    /\ \E k \in 1..Len(t_refs) :
           \E n \in 1..Len(REFERENCE_PATTERNS) :
               /\ RuleMatches(n, t_prompt, t_refs[k].start, t_refs[k].end)
               /\ REFERENCE_PATTERNS[n].type # t_refs[k].type
    /\ \E j, k \in 1..Len(t_refs) :
           /\ j < k
           /\ t_refs[k].start < t_refs[j].end

----------------------------------------------------------------------------
(* Claims about the slots generate_dataset plans. *)

RECURSIVE SumTo(_, _)
SumTo(f, n) == IF n < 0 THEN 0 ELSE f[n] + SumTo(f, n - 1)

\* The slots planned for sector s_idx, over all classes.
PlannedForSector(s_idx) ==
    SumTo([p_idx \in 0..(Len(PATTERN_TYPES) - 1) |-> planned[<<s_idx, p_idx>>]],
          Len(PATTERN_TYPES) - 1)

PlannedInAll ==
    SumTo([s_idx \in 0..(Len(SECTORS) - 1) |-> PlannedForSector(s_idx)], Len(SECTORS) - 1)

\* C12: when the loops have ended, each of the first (total mod S) sectors
\* has floor(total/S)+1 slots and the others floor(total/S); in a sector with
\* a slots each of the first (a mod C) classes has floor(a/C)+1 slots and the
\* others floor(a/C).
C12_QuotaPerSectorAndClass ==
    plan_pc = "returned" =>
        \A s_idx \in 0..(Len(SECTORS) - 1) :
            LET S == Len(SECTORS)
                C == Len(PATTERN_TYPES)
                a == PlannedForSector(s_idx)
            IN  /\ a = IF s_idx < plan_total % S THEN (plan_total \div S) + 1
                       ELSE plan_total \div S
                /\ \A p_idx \in 0..(C - 1) :
                       planned[<<s_idx, p_idx>>] =
                           IF p_idx < a % C THEN (a \div C) + 1 ELSE a \div C

\* The largest total: the first sector gets six slots, two of them for the
\* first class, and the other sectors five, one for each class.
C12_Witness ==
    /\ plan_pc = "returned"
    /\ plan_total = MaxTotal
    /\ planned[<<0, 0>>] > planned[<<0, 1>>]
    /\ planned[<<0, 1>>] > 0
    /\ PlannedForSector(0) > PlannedForSector(1)

\* C13: when the loops have ended, the slots planned are total_cases in all,
\* and the counts of any two (sector, class) cells differ by at most one.
C13_SumAndBalance ==
    plan_pc = "returned" =>
        /\ PlannedInAll = plan_total
        /\ \A c1 \in Cells, c2 \in Cells : planned[c1] - planned[c2] <= 1

\* A total that leaves cells of different sectors with different counts.
C13_Witness ==
    /\ plan_pc = "returned"
    /\ plan_total > Len(SECTORS)
    /\ \E c1 \in Cells, c2 \in Cells :
           c1[1] # c2[1] /\ planned[c1] = planned[c2] + 1

====
